---- MODULE Spec2Model ----
(***************************************************************************)
(* A model of the streaming HTTP request parser (stla_http.c), of the      *)
(* asynchronous byte reader it drives, and of the parser group's pool.     *)
(*                                                                         *)
(* Bytes are one-character strings; a byte string is a sequence of them.   *)
(* A C pointer to a string is the string itself, or one of the two         *)
(* sentinels Null (the null pointer) and Wild (an indeterminate pointer:   *)
(* what a field of a malloc'ed struct holds before its first assignment).  *)
(***************************************************************************)
EXTENDS Integers, Sequences, FiniteSets, TLC

VARIABLES
    on_body_chunk,      \* group: is the optional on_body_chunk callback registered
    pool_size,          \* group: g->pool_size
    nfree,              \* group: number of parsers linked on g->parser_pool
    parser,             \* the fields of the one stla_http_t the caller of Spec uses
    held,               \* "none": not constructed, "held": owned by the caller, "free": on the free list
    log,                \* callbacks invoked since the parser was last acquired
    req,                \* the bytes the caller means to feed to the acquired parser
    fed,                \* how many bytes of req have been passed to stla_http_parse
    p0,                 \* the parser as stla_http_init returned it (history)
    late,               \* stla_http_parse calls begun with ReadComplete set (history)
    ninit,              \* stla_http_init calls so far
    got,                \* SpecForm: the last stla_http_param(p, body, ...) call and its result (history)
    heldPool,           \* SpecPool: pool-member parsers owned by callers
    heldNon,            \* SpecPool: non-pool parsers owned by callers
    lock,               \* SpecPool: holder of g->lock ("free", "destroy")
    dpc,                \* SpecPool: position of stla_http_group_destroy
    num_pool_destroyed, \* SpecPool: the local counter of stla_http_group_destroy
    slept,              \* SpecPool: stla_http_group_destroy has slept at least once (history)
    group_freed,        \* SpecPool: stla_free(g) has run
    parser_pool,        \* SpecLock: g->parser_pool, the head of the free list (0: NULL)
    next,               \* SpecLock: p->next of every parser
    made,               \* SpecLock: parsers constructed so far; they are numbered 1..made
    tpc,                \* SpecLock: position of every thread in stla_http_init or stla_http_release
    tres,               \* SpecLock: res of stla_http_init, p of stla_http_release (0: NULL)
    town                \* SpecLock: the parsers every thread owns

vars == <<on_body_chunk, pool_size, nfree, parser, held, log, req, fed, p0, late,
          ninit, got, heldPool, heldNon, lock, dpc, num_pool_destroyed, slept, group_freed,
          parser_pool, next, made, tpc, tres, town>>

parserVars == <<on_body_chunk, parser, held, log, req, fed, p0, late, ninit, got>>
poolVars == <<heldPool, heldNon, lock, dpc, num_pool_destroyed, slept, group_freed>>
threadVars == <<next, made, tpc, tres, town>>

----------------------------------------------------------------------------
(* Bytes and C strings *)

Null == <<"NULL">>
Wild == <<"WILD">>
NUL == "NUL"
CRLF == <<"\r", "\n">>
CRLFCRLF == <<"\r", "\n", "\r", "\n">>

IsPtr(s) == s # Null /\ s # Wild

white_space(c) == c = " " \/ c = "\t"

Digits == <<"0", "1", "2", "3", "4", "5", "6", "7", "8", "9">>
UpperCase == <<"A", "B", "C", "D", "E", "F", "G", "H", "I", "J", "K", "L", "M",
               "N", "O", "P", "Q", "R", "S", "T", "U", "V", "W", "X", "Y", "Z">>
LowerCase == <<"a", "b", "c", "d", "e", "f", "g", "h", "i", "j", "k", "l", "m",
               "n", "o", "p", "q", "r", "s", "t", "u", "v", "w", "x", "y", "z">>

isdigit(c) == \E i \in 1..10 : Digits[i] = c
DigitVal(c) == (CHOOSE i \in 1..10 : Digits[i] = c) - 1
isxdigit(c) == isdigit(c) \/ \E i \in 1..6 : LowerCase[i] = c \/ UpperCase[i] = c

tolower(c) == IF \E i \in 1..26 : UpperCase[i] = c
              THEN LowerCase[CHOOSE i \in 1..26 : UpperCase[i] = c]
              ELSE c

Lower(s) == [i \in 1..Len(s) |-> tolower(s[i])]

\* strncasecmp(a, b, n) == 0 for C strings a and b with Len(b) = n
strncasecmp0(a, b) == Len(a) >= Len(b) /\ Lower(SubSeq(a, 1, Len(b))) = Lower(b)

\* strcasecmp(a, b) == 0
strcasecmp0(a, b) == Lower(a) = Lower(b)

\* Does needle occur in hay at index i
At(hay, needle, i) ==
    /\ i >= 1
    /\ i + Len(needle) - 1 <= Len(hay)
    /\ \A k \in 1..Len(needle) : hay[i + k - 1] = needle[k]

RECURSIVE memmem(_, _, _)
\* memmem over hay[from..]: the index of the first occurrence, 0 when there is none
memmem(hay, needle, from) ==
    IF from + Len(needle) - 1 > Len(hay) THEN 0
    ELSE IF At(hay, needle, from) THEN from
    ELSE memmem(hay, needle, from + 1)

RECURSIVE SkipWs(_, _)
SkipWs(m, i) == IF i <= Len(m) /\ white_space(m[i]) THEN SkipWs(m, i + 1) ELSE i

RECURSIVE SkipSp(_, _)
SkipSp(m, i) == IF i <= Len(m) /\ m[i] = " " THEN SkipSp(m, i + 1) ELSE i

\* index of the first NUL of memory m at or after i
FirstNul(m, i) == CHOOSE e \in i..Len(m) : m[e] = NUL /\ \A j \in i..(e - 1) : m[j] # NUL

\* the C string that starts at index i of memory m
CStr(m, i) == SubSeq(m, i, FirstNul(m, i) - 1)

\* strrchr(m + from, c): the index of the last c of the C string at from, 0 when none
strrchr(m, from, c) ==
    LET e == FirstNul(m, from)
        hits == {i \in from..(e - 1) : m[i] = c}
    IN  IF hits = {} THEN 0 ELSE CHOOSE i \in hits : \A j \in hits : j <= i

RECURSIVE DecPrefix(_, _, _)
\* the value of the decimal digits of s from index i on, accumulated in acc
DecPrefix(s, i, acc) ==
    IF i <= Len(s) /\ isdigit(s[i])
    THEN DecPrefix(s, i + 1, acc * 10 + DigitVal(s[i]))
    ELSE acc

\* sscanf(s, "%llu" | "%zu", &res): [n |-> conversions made, v |-> res].
\* White space is skipped, then a "+" is accepted, then at least one decimal
\* digit is needed.  The numbers of the model stay far below 2^64, so the
\* width of the result is not modelled; a "-" is not in the model's inputs.
sscanf_u(s) ==
    LET i == SkipWs(s, 1)
        j == IF i <= Len(s) /\ s[i] = "+" THEN i + 1 ELSE i
    IN  IF j <= Len(s) /\ isdigit(s[j])
        THEN [n |-> 1, v |-> DecPrefix(s, j, 0)]
        ELSE [n |-> 0, v |-> 0]

\* stla_uint64_t(value, default_value)
stla_uint64_t(value, default_value) ==
    IF value = Null THEN default_value
    ELSE LET r == sscanf_u(value) IN IF r.n = 1 THEN r.v ELSE default_value

----------------------------------------------------------------------------
(* The state bits of a parser (stla_http_s.state) as a set of bit names *)

http_state_reading_headers == "reading_headers"
http_state_reading_whole_body == "reading_whole_body"
http_state_reading_chunk_size == "reading_chunk_size"
http_state_reading_chunk_data == "reading_chunk_data"
http_state_reading_footers == "reading_footers"
http_state_read_complete == "read_complete"

\* a | b on bit sets
Xor_Or(a, b) == a \cup b

\* a ^ b on bit sets
Xor(a, b) == (a \ b) \cup (b \ a)

KeyContentLength == <<"C", "o", "n", "t", "e", "n", "t", "-", "L", "e", "n", "g", "t", "h">>
KeyTransferEncoding == <<"T", "r", "a", "n", "s", "f", "e", "r", "-", "E", "n", "c", "o", "d", "i", "n", "g">>
StrChunked == <<"c", "h", "u", "n", "k", "e", "d">>

----------------------------------------------------------------------------
(* The asynchronous byte reader.  A parser's reader is the pair of fields  *)
(* buf (the unread region) and pull (the one outstanding pull request).    *)

NoPull == [kind |-> "none", n |-> 0, delim |-> <<>>]
PullBytes(n) == [kind |-> "bytes", n |-> n, delim |-> <<>>]
PullString(d) == [kind |-> "string", n |-> 0, delim |-> d]

\* The length of the slice of buf that satisfies pull, 0 when it is not satisfied yet:
\* exactly n bytes, or the bytes up to and including the earliest delimiter.
Satisfied(buf, pull) ==
    IF pull.kind = "bytes"
    THEN IF Len(buf) >= pull.n THEN pull.n ELSE 0
    ELSE IF pull.kind = "string"
    THEN LET k == memmem(buf, pull.delim, 1)
         IN  IF k = 0 THEN 0 ELSE k + Len(pull.delim) - 1
    ELSE 0

\* A context c is [p: the parser, log: the callbacks so far, view: the reader's
\* current view (stla_async_buffer_data / _data_length)].
\* Registering a pull: [ok |-> TRUE] with the view moved to the satisfied slice
\* when the unread region already satisfies it, else [ok |-> FALSE] with the
\* pull left outstanding.
Advance(c, pull) ==
    LET n == Satisfied(c.p.buf, pull)
    IN  IF n > 0
        THEN [ok |-> TRUE,
              c |-> [c EXCEPT !.view = SubSeq(c.p.buf, 1, n),
                              !.p.buf = SubSeq(c.p.buf, n + 1, Len(c.p.buf)),
                              !.p.pull = NoPull]]
        ELSE [ok |-> FALSE, c |-> [c EXCEPT !.p.pull = pull]]

stla_async_buffer_advance_bytes(c, n) == Advance(c, PullBytes(n))
stla_async_buffer_advance_to_string(c, d) == Advance(c, PullString(d))

\* stla_async_buffer_clear: discard the buffered bytes and the outstanding pull
stla_async_buffer_clear(p) == [p EXCEPT !.buf = <<>>, !.pull = NoPull]

----------------------------------------------------------------------------
(* Callbacks: an entry of log records the callback, its body view and the  *)
(* parser's state bits as the callback sees them.                          *)

Call(c, cb, data, len) ==
    [c EXCEPT !.log = Append(@, [cb |-> cb, data |-> data, len |-> len, state |-> c.p.state])]

SetState(c, s) == [c EXCEPT !.p.state = s]

----------------------------------------------------------------------------
(* parse_request_and_headers *)

\* lines 159-161: ep, the end of the header line that starts at i
LineEnd(view, i) ==
    LET k == memmem(view, CRLF, i)
    IN  IF k = 0 THEN Len(view) + 1 ELSE k

RECURSIVE SplitLines(_, _)
\* the header lines of view from index i on (the while loop of lines 158-165)
SplitLines(view, i) ==
    IF i > Len(view) THEN <<>>
    ELSE LET ep == LineEnd(view, i)
         IN  <<SubSeq(view, i, ep - 1)>> \o SplitLines(view, ep + 2)

RECURSIVE SkipToken(_, _)
SkipToken(m, i) == IF m[i] # NUL /\ ~white_space(m[i]) THEN SkipToken(m, i + 1) ELSE i

RECURSIVE BackWs(_, _, _)
BackWs(m, q, lo) == IF q > lo /\ white_space(m[q]) THEN BackWs(m, q - 1, lo) ELSE q

\* `*p++ = 0`
Terminate(m, i) == [m EXCEPT ![i] = NUL]

\* lines 184-187: the last space or tab at or after the uri, 0 for none
EndSpace(m, us) ==
    LET sp == strrchr(m, us, " ")
        tb == strrchr(m, us, "\t")
    IN  IF sp = 0 \/ (tb # 0 /\ tb > sp) THEN tb ELSE sp

\* lines 189-193: where the uri is terminated
EndOfUri(m, us, end_space) ==
    LET q == BackWs(m, end_space, us)
    IN  IF ~white_space(m[q]) THEN q + 1 ELSE q

\* lines 194-197, m being the line after `*p++ = 0` at q
SetProtocol(p, m, ms, us, q) ==
    [p EXCEPT !.method = CStr(m, ms), !.uri = CStr(m, us),
              !.protocol = CStr(m, SkipWs(m, q + 1))]

\* lines 188-198: protocol is assigned only when a space or tab was found
ScanProtocol(p, m, ms, us, end_space) ==
    IF end_space # 0
    THEN LET q == EndOfUri(m, us, end_space)
         IN  SetProtocol(p, Terminate(m, q), ms, us, q)
    ELSE [p EXCEPT !.method = CStr(m, ms), !.uri = CStr(m, us)]

\* lines 179-187, m being the line after the method was terminated at me
ScanUri(p, m, ms, me) ==
    LET us == SkipWs(m, me + 1)
    IN  ScanProtocol(p, m, ms, us, EndSpace(m, us))

\* lines 170-178
ScanMethod(p, m, ms) ==
    LET me == SkipToken(m, ms)
    IN  ScanUri(p, Terminate(m, me), ms, me)

\* lines 145-168: the header lines, when the block has a CRLF at k
SetHeaders(p, view, k) ==
    IF k # 0
    THEN LET lines == SplitLines(view, k + 2)
         IN  [p EXCEPT !.headers = lines, !.num_headers = Len(lines)]
    ELSE p

\* line 169: the request line is copied into the region allocator; what the
\* scan reads past the copy's terminator is the region's residue p.junk (the
\* scan runs past the terminator when the line has no white space after its
\* first token).
CopyRequestLine(p, view, k) ==
    SubSeq(view, 1, (IF k # 0 THEN k ELSE Len(view) + 1) - 1) \o <<NUL>> \o p.junk \o <<NUL>>

\* line 199
AllSet(p) == [p |-> p, ok |-> p.method # Null /\ p.uri # Null /\ p.protocol # Null]

ParseAt(p, view, k) ==
    LET req_line == CopyRequestLine(p, view, k)
    IN  AllSet(ScanMethod(SetHeaders(p, view, k), req_line, SkipWs(req_line, 1)))

\* lines 140-200.  The result: the parser with headers, num_headers, method,
\* uri, protocol assigned as the code assigns them, and the value returned.
parse_request_and_headers(p, view) == ParseAt(p, view, memmem(view, CRLF, 1))

----------------------------------------------------------------------------
(* get_header_param and stla_http_param(p, header, key, default) *)

\* the value of header line h for field, Null when h does not give one
HeaderValue(h, field) ==
    IF ~strncasecmp0(h, field) THEN Null
    ELSE LET a == SkipSp(h, Len(field) + 1)
         IN  IF a > Len(h) \/ h[a] # ":" THEN Null
             ELSE LET b == SkipSp(h, a + 1)
                  IN  IF b > Len(h) THEN Null ELSE SubSeq(h, b, Len(h))

get_header_param(p, field) ==
    LET hits == {i \in 1..p.num_headers : HeaderValue(p.headers[i], field) # Null}
    IN  IF Len(field) = 0 \/ hits = {} THEN Null
        ELSE HeaderValue(p.headers[CHOOSE i \in hits : \A j \in hits : i <= j], field)

stla_http_param_header(p, key, default_value) ==
    LET res == IF Len(key) > 0 THEN get_header_param(p, key) ELSE default_value
    IN  IF res = Null THEN default_value ELSE res

----------------------------------------------------------------------------
(* on_data: the continuation the parser registers with its reader.  Each   *)
(* on_data_* operator below is one `if` of the `while (1)` body, entered   *)
(* with the view the previous one left.  Its value is the context it       *)
(* leaves and where control goes next: "return", or the `if` to fall to.   *)

Return(c) == [c |-> c, next |-> "return"]
Goto(c, stage) == [c |-> c, next |-> stage]

\* `if (!stla_async_buffer_advance_...(...)) return;` and the two reads of
\* the view that follow it
ReturnUnless(a, stage) == IF ~a.ok THEN Return(a.c) ELSE Goto(a.c, stage)

\* HeadersFailed without the read_complete bit
HeadersFailed_NotComplete(c) ==
    Call(SetState(c, Xor(c.p.state, {http_state_reading_headers})), "on_parsing_error", Null, 0)

\* lines 211-215: the request line did not parse
HeadersFailed(c) ==
    Call(SetState(c, Xor(c.p.state, {http_state_reading_headers, http_state_read_complete})),
         "on_parsing_error", Null, 0)

\* HeadersParsed without the call of on_headers
HeadersParsed_NoCallback(c) == SetState(c, Xor(c.p.state, {http_state_reading_headers}))

\* lines 216-217
HeadersParsed(c) ==
    Call(SetState(c, Xor(c.p.state, {http_state_reading_headers})), "on_headers", Null, 0)

\* ContentLengthOf with Transfer-Encoding: chunked tested first
ContentLengthOf_ChunkedFirst(p) ==
    LET encoding == stla_http_param_header(p, KeyTransferEncoding, Null)
    IN  IF encoding # Null /\ strcasecmp0(encoding, StrChunked) THEN 0
        ELSE stla_uint64_t(stla_http_param_header(p, KeyContentLength, Null), 0)

\* lines 218-219
ContentLengthOf(p) == stla_uint64_t(stla_http_param_header(p, KeyContentLength, Null), 0)

\* lines 220-221
EncodingOf(p) == stla_http_param_header(p, KeyTransferEncoding, Null)

\* NoBody without the read_complete bit
NoBody_NotComplete(c) == Call(c, "on_request_end", Null, 0)

\* lines 242-245: no body
NoBody(c) ==
    Call(SetState(c, c.p.state \cup {http_state_read_complete}), "on_request_end", Null, 0)

\* lines 209-247
on_data_headers(c) ==
    IF http_state_reading_headers \in c.p.state
    THEN LET r == parse_request_and_headers(c.p, c.view)
         IN  IF ~r.ok THEN Return(HeadersFailed([c EXCEPT !.p = r.p]))
             ELSE LET c1 == HeadersParsed([c EXCEPT !.p = r.p])
                      content_length == ContentLengthOf(c1.p)
                      encoding == EncodingOf(c1.p)
                  IN  IF content_length # 0
                      THEN ReturnUnless(
                               stla_async_buffer_advance_bytes(
                                   SetState(c1, c1.p.state \cup {http_state_reading_whole_body}),
                                   content_length),
                               "whole_body")
                      ELSE IF encoding # Null /\ strcasecmp0(encoding, StrChunked)
                      THEN ReturnUnless(
                               stla_async_buffer_advance_to_string(
                                   SetState(c1, c1.p.state \cup {http_state_reading_chunk_size}),
                                   CRLF),
                               "whole_body")
                      ELSE Return(NoBody(c1))
    ELSE Goto(c, "whole_body")

\* BodyRead handing on_request_end no view
BodyRead_NoView(c) ==
    Call([c EXCEPT !.p.post_data = c.view, !.p.post_size = Len(c.view),
                   !.p.state = Xor(c.p.state, {http_state_reading_whole_body,
                                               http_state_read_complete})],
         "on_request_end", Null, 0)

\* lines 250-253: the whole body has arrived
BodyRead(c) ==
    LET c1 == [c EXCEPT !.p.post_data = c.view, !.p.post_size = Len(c.view),
                        !.p.state = Xor(c.p.state, {http_state_reading_whole_body,
                                                    http_state_read_complete})]
    IN  Call(c1, "on_request_end", c.view, Len(c.view))

\* lines 248-255
on_data_whole_body(c) ==
    IF http_state_reading_whole_body \in c.p.state
    THEN Return(BodyRead(c))
    ELSE Goto(c, "chunk_size")

RECURSIVE HexPrefixLen(_, _)
\* the loop of lines 261-263: how many leading hex digits are copied to buf
HexPrefixLen(data, i) ==
    IF i < Len(data) /\ i < 63 /\ isxdigit(data[i + 1]) THEN HexPrefixLen(data, i + 1) ELSE i

\* lines 259-266: sscanf(buf, "%zu", &chunk_size) on the copied hex digits
ScanChunkSize(data) == sscanf_u(SubSeq(data, 1, HexPrefixLen(data, 0)))

\* ChunkSizeFailed without the callback and with the size line read again
ChunkSizeFailed_Retry(c) == stla_async_buffer_advance_to_string(c, CRLF).c

\* lines 267-269
ChunkSizeFailed(c) ==
    Call(SetState(c, Xor(c.p.state, {http_state_reading_chunk_size, http_state_read_complete})),
         "on_parsing_error", Null, 0)

\* lines 256-294
on_data_chunk_size(c) ==
    IF http_state_reading_chunk_size \in c.p.state
    THEN LET r == ScanChunkSize(c.view)
         IN  IF r.n # 1 THEN Return(ChunkSizeFailed(c))
             ELSE IF r.v > 0
             THEN ReturnUnless(
                      stla_async_buffer_advance_bytes(
                          SetState(c, Xor(c.p.state, {http_state_reading_chunk_size,
                                                      http_state_reading_chunk_data})),
                          r.v + 2),
                      "chunk_data")
             ELSE ReturnUnless(
                      stla_async_buffer_advance_to_string(
                          SetState(c, Xor(c.p.state, {http_state_reading_chunk_size,
                                                      http_state_reading_footers})),
                          CRLF),
                      "chunk_data")
    ELSE Goto(c, "chunk_data")

\* lines 297-306: hand the chunk to on_body_chunk, or buffer it up.  c.chunked
\* tells whether the group has an on_body_chunk.  Appending through an
\* indeterminate chunk_body_cache is a fault.
ChunkArrived(c) ==
    LET data_length == Len(c.view) - 2
        data == SubSeq(c.view, 1, data_length)
    IN  IF c.chunked THEN Call(c, "on_body_chunk", data, data_length)
        ELSE IF c.p.chunk_body_cache = Wild THEN [c EXCEPT !.p.fault = "wild"]
        ELSE IF c.p.chunk_body_cache = Null THEN [c EXCEPT !.p.chunk_body_cache = data]
        ELSE [c EXCEPT !.p.chunk_body_cache = @ \o data]

\* lines 295-315
on_data_chunk_data(c) ==
    IF http_state_reading_chunk_data \in c.p.state
    THEN LET c1 == ChunkArrived(c)
         IN  IF c1.p.fault # "none" THEN Return(c1)
             ELSE ReturnUnless(
                      stla_async_buffer_advance_to_string(
                          SetState(c1, Xor(c1.p.state, {http_state_reading_chunk_data,
                                                        http_state_reading_chunk_size})),
                          CRLF),
                      "footers")
    ELSE Goto(c, "footers")

\* lines 328-335: end of transmission.  Reading through an indeterminate
\* chunk_body_cache is a fault.
RequestEnd(c) ==
    LET c1 == SetState(c, Xor(c.p.state, {http_state_reading_footers, http_state_read_complete}))
    IN  IF c1.p.chunk_body_cache = Wild THEN [c1 EXCEPT !.p.fault = "wild"]
        ELSE IF c1.p.chunk_body_cache # Null
        THEN Call([c1 EXCEPT !.p.post_data = c1.p.chunk_body_cache,
                             !.p.post_size = Len(c1.p.chunk_body_cache)],
                  "on_request_end", c1.p.chunk_body_cache, Len(c1.p.chunk_body_cache))
        ELSE Call([c1 EXCEPT !.p.post_data = Null, !.p.post_size = 0],
                  "on_request_end", Null, 0)

AllReading == {http_state_reading_headers, http_state_reading_whole_body,
               http_state_reading_chunk_size, http_state_reading_chunk_data,
               http_state_reading_footers}

\* lines 316-339: the footer loop, and the back edge of `while (1)`.  With no
\* reading bit set the outer loop would spin for ever.
on_data_footers(c) ==
    IF http_state_reading_footers \in c.p.state
    THEN IF Len(c.view) > 0
         THEN ReturnUnless(stla_async_buffer_advance_to_string(c, CRLF), "footers")
         ELSE Return(RequestEnd(c))
    ELSE IF c.p.state \cap AllReading = {} THEN Return([c EXCEPT !.p.fault = "spin"])
    ELSE Goto(c, "headers")

\* one `if` of the loop body
on_data_step(c, stage) ==
    CASE stage = "headers" -> on_data_headers(c)
      [] stage = "whole_body" -> on_data_whole_body(c)
      [] stage = "chunk_size" -> on_data_chunk_size(c)
      [] stage = "chunk_data" -> on_data_chunk_data(c)
      [] stage = "footers" -> on_data_footers(c)

RECURSIVE on_data_from(_, _)
on_data_from(c, stage) ==
    LET r == on_data_step(c, stage)
    IN  IF r.next = "return" THEN r.c ELSE on_data_from(r.c, r.next)

\* lines 202-340
on_data(c) == on_data_from(c, "headers")

----------------------------------------------------------------------------
(* stla_async_buffer_parse and stla_http_parse *)

RECURSIVE Drive(_)
\* invoke the continuation while the outstanding pull is satisfied
Drive(c) ==
    LET n == Satisfied(c.p.buf, c.p.pull)
    IN  IF n > 0 /\ c.p.fault = "none"
        THEN Drive(on_data([c EXCEPT !.view = SubSeq(c.p.buf, 1, n),
                                     !.p.buf = SubSeq(c.p.buf, n + 1, Len(c.p.buf)),
                                     !.p.pull = NoPull]))
        ELSE c

\* append the bytes, then serve the outstanding pull
stla_async_buffer_parse(c, data) == Drive([c EXCEPT !.p.buf = @ \o data])

\* ParseAfterComplete returning without a callback
ParseAfterComplete_Silent(c) == c

\* lines 399-402
ParseAfterComplete(c) == Call(c, "on_parsing_error", Null, 0)

\* stla_http_parse without the test of read_complete
stla_http_parse_Unguarded(c, data) == stla_async_buffer_parse(c, data)

\* lines 398-404
stla_http_parse(c, data) ==
    IF http_state_read_complete \in c.p.state
    THEN ParseAfterComplete(c)
    ELSE stla_async_buffer_parse(c, data)

----------------------------------------------------------------------------
(* Bounds and inputs *)

max_parser_group == 256

\* stla_http_init calls of one run of Spec
MaxInit == 2

\* SpecPool: parsers the callers own at the same time
MaxOutstanding == 258

\* SpecLive: parsers the callers own at the same time
MaxLive == 4

\* SpecPool, SpecLive: pool members still owned by callers when
\* stla_http_group_destroy is called
MaxOutAtDestroy == 2

\* SpecLock: the threads that call stla_http_init and stla_http_release, how
\* many parsers each of them owns at most, and the numbers of the parsers
\* (a thread whose stla_http_init was under way when the free list was
\* drained constructs one more)
Threads == {"t1", "t2"}
MaxOwn == 1
Parsers == 1..(Cardinality(Threads) * (MaxOwn + 1))

\* What a freshly malloc'ed stla_http_t holds in the pointer fields no code
\* has assigned yet: zero bytes (Null) or anything else (Wild).
Fills == {Null, Wild}

\* What the region allocator's memory holds right after the copy of the
\* request line: nothing (a NUL), or bytes left there earlier.
Junks == {<<>>, <<"x", " ", "y">>}

\* The fields of a stla_http_t, its reader (buf, pull) and region (junk) included
NewParser(pool_member, fill, junk) ==
    [state |-> {}, pool_member |-> pool_member,
     method |-> fill, uri |-> fill, protocol |-> fill,
     headers |-> <<>>, num_headers |-> 0,
     post_data |-> fill, post_size |-> IF fill = Wild THEN 1 ELSE 0,
     chunk_body_cache |-> fill,
     query_cgi |-> fill, body_cgi |-> fill,
     buf |-> <<>>, pull |-> NoPull, junk |-> junk, fault |-> "none"]

Ctx(p, l, chunked) == [p |-> p, log |-> l, view |-> <<>>, chunked |-> chunked]

----------------------------------------------------------------------------
(* stla_cgi and stla_http_param(p, body, key, default)                      *)
(* A decoder, a pointer to stla_cgi_t, is Null, Wild, <<"cgi", table>> for  *)
(* one that lies in the parser's region, or <<"stale", table>> for one      *)
(* whose region has been cleared since; table is the sequence of            *)
(* <<key, value>> pairs.  A view of the reader that has been cleared since  *)
(* is <<"stale">> \o the bytes it had.                                      *)

RECURSIVE IndexOf(_, _, _)
\* the index of the first c in s at or after i, Len(s) + 1 when there is none
IndexOf(s, c, i) == IF i > Len(s) \/ s[i] = c THEN i ELSE IndexOf(s, c, i + 1)

\* one k=v item as a pair; an item without "=" has the empty value
KeyValue(item) ==
    LET e == IndexOf(item, "=", 1)
    IN  <<SubSeq(item, 1, e - 1), SubSeq(item, e + 1, Len(item))>>

RECURSIVE DecodePairs(_, _)
\* the pairs of the k=v&k=v string s from index i on
DecodePairs(s, i) ==
    IF i > Len(s) THEN <<>>
    ELSE LET e == IndexOf(s, "&", i)
         IN  <<KeyValue(SubSeq(s, i, e - 1))>> \o DecodePairs(s, e + 1)

stla_cgi_init(s) == <<"cgi", DecodePairs(s, 1)>>

\* the value of the first pair of table with the key, default_value for none
Lookup(table, key, default_value) ==
    LET hits == {i \in 1..Len(table) : table[i][1] = key}
    IN  IF hits = {} THEN default_value
        ELSE table[CHOOSE i \in hits : \A j \in hits : i <= j][2]

IsStale(x) == Len(x) > 0 /\ x[1] = "stale"

\* What a read of memory that has been cleared can give: what was there
\* (was), something else (other), or a fault (Wild).
Dangling(was, other) == {was, other, Wild}

\* stla_cgi_str(cgi, key, default_value): the values the call can return,
\* Wild standing for a fault
stla_cgi_str(cgi, key, default_value) ==
    IF cgi = Null THEN {default_value}
    ELSE IF cgi = Wild THEN {Wild}
    ELSE IF IsStale(cgi) THEN Dangling(Lookup(cgi[2], key, default_value), default_value)
    ELSE {Lookup(cgi[2], key, default_value)}

KeyContentType == <<"C", "o", "n", "t", "e", "n", "t", "-", "T", "y", "p", "e">>
FormUrlEncoded ==
    <<"a", "p", "p", "l", "i", "c", "a", "t", "i", "o", "n", "/", "x", "-", "w", "w",
      "w", "-", "f", "o", "r", "m", "-", "u", "r", "l", "e", "n", "c", "o", "d", "e", "d">>

\* lines 446-447: the decoders stla_cgi_init can make of the post_size bytes
\* at post_data, Wild standing for a fault
NewBodyCgi(post_data) ==
    IF post_data = Null \/ post_data = Wild THEN {Wild}
    ELSE IF IsStale(post_data)
    THEN Dangling(stla_cgi_init(Tail(post_data)), stla_cgi_init(<<>>))
    ELSE {stla_cgi_init(post_data)}

\* lines 441-452: the values body_cgi can have when get_body_cgi returns
get_body_cgi(p, content_type) ==
    IF p.body_cgi # Null THEN {p.body_cgi}
    ELSE IF p.post_size # 0 /\ content_type # Null /\ strncasecmp0(content_type, FormUrlEncoded)
    THEN NewBodyCgi(p.post_data)
    ELSE {Null}

\* the outcome of stla_http_param when get_body_cgi left cgi in body_cgi and
\* stla_cgi_str returned res
ParamOutcome(p, cgi, res, default_value) ==
    IF cgi = Wild /\ p.body_cgi # Wild
    THEN [p |-> [p EXCEPT !.fault = "wild"], res |-> default_value]
    ELSE IF res = Wild
    THEN [p |-> [p EXCEPT !.body_cgi = cgi, !.fault = "wild"], res |-> default_value]
    ELSE [p |-> [p EXCEPT !.body_cgi = cgi], res |-> IF res = Null THEN default_value ELSE res]

\* lines 454-471 for loc = body: the outcomes [p |-> the parser, res |-> the
\* value returned] the call can have
stla_http_param_body(p, key, default_value) ==
    IF Len(key) > 0
    THEN {ParamOutcome(p, cgi, res, default_value) :
             <<cgi, res>> \in UNION {{cgi} \X stla_cgi_str(cgi, key, Null) :
                 cgi \in get_body_cgi(p, stla_http_param_header(p, KeyContentType, Null))}}
    ELSE {[p |-> p, res |-> default_value]}

\* the part of the URI that follows its first "?"
QueryString(uri) == SubSeq(uri, IndexOf(uri, "?", 1) + 1, Len(uri))

\* lines 434-439: the values query_cgi can have when get_query_cgi returns
get_query_cgi(p) ==
    IF p.query_cgi # Null THEN {p.query_cgi}
    ELSE IF p.uri = Null THEN {Null}
    ELSE IF p.uri = Wild THEN {Wild}
    ELSE {stla_cgi_init(QueryString(p.uri))}

\* the outcome of stla_http_param when get_query_cgi left cgi in query_cgi
\* and stla_cgi_str returned res
QueryOutcome(p, cgi, res, default_value) ==
    IF cgi = Wild /\ p.query_cgi # Wild
    THEN [p |-> [p EXCEPT !.fault = "wild"], res |-> default_value]
    ELSE IF res = Wild
    THEN [p |-> [p EXCEPT !.query_cgi = cgi, !.fault = "wild"], res |-> default_value]
    ELSE [p |-> [p EXCEPT !.query_cgi = cgi], res |-> IF res = Null THEN default_value ELSE res]

\* lines 454-471 for loc = query: the outcomes [p |-> the parser, res |-> the
\* value returned] the call can have
stla_http_param_query(p, key, default_value) ==
    IF Len(key) > 0
    THEN {QueryOutcome(p, cgi, res, default_value) :
             <<cgi, res>> \in UNION {{cgi} \X stla_cgi_str(cgi, key, Null) :
                 cgi \in get_query_cgi(p)}}
    ELSE {[p |-> p, res |-> default_value]}

\* stla_async_buffer_clear and stla_pool_clear, lines 384-385: what lay in the
\* reader and in the parser's region lies in cleared memory
stla_pool_clear(p) ==
    [p EXCEPT !.query_cgi = IF IsPtr(@) THEN <<"stale", @[2]>> ELSE @,
              !.body_cgi = IF IsPtr(@) THEN <<"stale", @[2]>> ELSE @,
              !.post_data = IF IsPtr(@) /\ ~IsStale(@) THEN <<"stale">> \o @ ELSE @]

\* got when stla_http_param has not been called
NoParam == [key |-> Null, res |-> Null]

----------------------------------------------------------------------------
(* stla_http_init and stla_http_release *)

\* PoolMember without the cap
PoolMember_Uncapped(size) == 1

\* line 358
PoolMember(size) == IF size + 1 < max_parser_group THEN 1 ELSE 0

\* stla_http_init without the assignment of line 373
Arm_KeepState(p) ==
    stla_async_buffer_advance_to_string(Ctx(p, <<>>, FALSE), CRLFCRLF).c.p

\* lines 372-374: the state and the first pull of an acquired parser
Arm(p) ==
    stla_async_buffer_advance_to_string(
        Ctx([p EXCEPT !.state = {http_state_reading_headers}], <<>>, FALSE), CRLFCRLF).c.p

\* lines 381-389 for a pool member: the parser as it lies on the free list
Recycle(p) == stla_pool_clear(stla_async_buffer_clear([p EXCEPT !.chunk_body_cache = Null]))

----------------------------------------------------------------------------
(* The requests a caller of Spec feeds *)

\* S1: a GET with one header and no body
ReqSimpleGet ==
    <<"G", "E", "T", " ", "/", "h", "i", " ", "H", "T", "T", "P", "/", "1", ".", "1",
      "\r", "\n", "H", "o", "s", "t", ":", " ", "x", "\r", "\n", "\r", "\n">>

\* a complete GET followed by two more bytes
ReqGetTrailing ==
    <<"G", "E", "T", " ", "/", " ", "H", "\r", "\n", "\r", "\n", "X", "Y">>

\* S3: a length-delimited POST
ReqPostLength ==
    <<"P", "O", "S", "T", " ", "/", "a", " ", "H", "T", "T", "P", "/", "1", ".", "0",
      "\r", "\n", "C", "o", "n", "t", "e", "n", "t", "-", "L", "e", "n", "g", "t", "h",
      ":", " ", "5", "\r", "\n", "\r", "\n", "h", "e", "l", "l", "o">>

\* a length-delimited POST (header name in lower case) followed by one more byte
ReqPostLengthTrailing ==
    <<"P", " ", "/", "a", " ", "H", "\r", "\n", "c", "o", "n", "t", "e", "n", "t", "-",
      "l", "e", "n", "g", "t", "h", ":", " ", "2", "\r", "\n", "\r", "\n", "h", "i", "Z">>

\* S5 with shorter chunks: two chunks, the zero chunk, the empty line
ReqChunked ==
    <<"P", " ", "/", " ", "H", "\r", "\n", "T", "r", "a", "n", "s", "f", "e", "r", "-",
      "E", "n", "c", "o", "d", "i", "n", "g", ":", " ", "c", "h", "u", "n", "k", "e",
      "d", "\r", "\n", "\r", "\n", "2", "\r", "\n", "h", "i", "\r", "\n", "1", "\r", "\n", "!",
      "\r", "\n", "0", "\r", "\n", "\r", "\n">>

\* one chunk, the zero chunk, a trailer line, the empty line
ReqChunkedTrailer ==
    <<"P", " ", "/", " ", "H", "\r", "\n", "T", "r", "a", "n", "s", "f", "e", "r", "-",
      "E", "n", "c", "o", "d", "i", "n", "g", ":", " ", "c", "h", "u", "n", "k", "e",
      "d", "\r", "\n", "\r", "\n", "1", "\r", "\n", "a", "\r", "\n", "0", "\r", "\n", "T", ":",
      " ", "v", "\r", "\n", "\r", "\n">>

\* a chunk size line that is no number, then two more bytes
ReqChunkedBadSize ==
    <<"P", " ", "/", " ", "H", "\r", "\n", "T", "r", "a", "n", "s", "f", "e", "r", "-",
      "E", "n", "c", "o", "d", "i", "n", "g", ":", " ", "c", "h", "u", "n", "k", "e",
      "d", "\r", "\n", "\r", "\n", "Z", "\r", "\n", "a", "b">>

\* S7: a request line of one token
ReqOneToken ==
    <<"?", "?", "?", "?", "\r", "\n", "\r", "\n">>

\* a request line with no protocol token
ReqTwoTokens ==
    <<"G", "E", "T", " ", "/", "h", "i", "\r", "\n", "\r", "\n">>

\* a request line whose uri is followed by white space only
ReqEmptyProtocol ==
    <<"G", "E", "T", " ", "/", "h", "i", " ", "\r", "\n", "\r", "\n">>

\* a request line of one token, a Content-Length and a body
ReqOneTokenLength ==
    <<"G", "E", "T", "\r", "\n", "C", "o", "n", "t", "e", "n", "t", "-", "L", "e", "n",
      "g", "t", "h", ":", " ", "2", "\r", "\n", "\r", "\n", "h", "i">>

\* a Content-Length of 0
ReqLengthZero ==
    <<"G", " ", "/", " ", "H", "\r", "\n", "C", "o", "n", "t", "e", "n", "t", "-", "L",
      "e", "n", "g", "t", "h", ":", " ", "0", "\r", "\n", "\r", "\n">>

\* a Content-Length that is no number
ReqLengthWord ==
    <<"G", " ", "/", " ", "H", "\r", "\n", "C", "o", "n", "t", "e", "n", "t", "-", "L",
      "e", "n", "g", "t", "h", ":", " ", "x", "\r", "\n", "\r", "\n">>

\* a Content-Length that begins with a digit and is no number, and two more bytes
ReqLengthMixed ==
    <<"G", " ", "/", " ", "H", "\r", "\n", "C", "o", "n", "t", "e", "n", "t", "-", "L",
      "e", "n", "g", "t", "h", ":", " ", "2", "x", "\r", "\n", "\r", "\n", "h", "i">>

Requests ==
    {ReqSimpleGet,
     ReqGetTrailing,
     ReqPostLength,
     ReqPostLengthTrailing,
     ReqChunked,
     ReqChunkedTrailer,
     ReqChunkedBadSize,
     ReqOneToken,
     ReqTwoTokens,
     ReqEmptyProtocol,
     ReqOneTokenLength,
     ReqLengthZero,
     ReqLengthWord,
     ReqLengthMixed}

\* The region's residue is read only when the scan of the request line runs
\* past the copy's terminator, which it does when the line has no white space
\* after its first token; for any other request one residue stands for all.
JunksFor(r) ==
    LET k == memmem(r, CRLF, 1)
        line == SubSeq(r, 1, (IF k = 0 THEN Len(r) + 1 ELSE k) - 1)
        m == line \o <<NUL>>
    IN  IF m[SkipToken(m, SkipWs(m, 1))] = NUL THEN Junks ELSE {<<>>}

----------------------------------------------------------------------------
(* Spec: one caller, one parser of one group *)

Blank == NewParser(0, Null, <<>>)

Init ==
    /\ on_body_chunk \in BOOLEAN
    /\ pool_size = 0
    /\ nfree = 0
    /\ parser = Blank
    /\ held = "none"
    /\ log = <<>>
    /\ req = <<>>
    /\ fed = 0
    /\ p0 = Blank
    /\ late = 0
    /\ ninit = 0
    /\ got = NoParam
    /\ heldPool = 0
    /\ heldNon = 0
    /\ lock = "free"
    /\ dpc = "idle"
    /\ num_pool_destroyed = 0
    /\ slept = FALSE
    /\ group_freed = FALSE
    /\ parser_pool = 0
    /\ next = [p \in Parsers |-> 0]
    /\ made = 0
    /\ tpc = [t \in Threads |-> "idle"]
    /\ tres = [t \in Threads |-> 0]
    /\ town = [t \in Threads |-> {}]

\* stla_http_init, lines 349-377, and the caller's choice, among requests, of
\* the bytes to feed
HttpInitOf(requests) ==
    /\ held # "held"
    /\ parser.fault = "none"
    /\ ninit < MaxInit
    /\ LET popped == nfree > 0
       IN  \E r \in requests : \E fill \in (IF popped THEN {Null} ELSE Fills), junk \in JunksFor(r) :
             LET res == Arm(IF popped
                            THEN [parser EXCEPT !.junk = junk]
                            ELSE NewParser(PoolMember(pool_size), fill, junk))
             IN  /\ nfree' = IF popped THEN nfree - 1 ELSE nfree
                 /\ pool_size' = IF popped THEN pool_size ELSE pool_size + PoolMember(pool_size)
                 /\ parser' = res
                 /\ p0' = res
                 /\ req' = r
    /\ held' = "held"
    /\ log' = <<>>
    /\ fed' = 0
    /\ late' = 0
    /\ ninit' = ninit + 1
    /\ got' = NoParam
    /\ UNCHANGED <<on_body_chunk, poolVars, parser_pool, threadVars>>

HttpInit == HttpInitOf(Requests)

\* stla_http_parse, lines 398-404, on the next n bytes of the request, n
\* one of lengths
HttpParseOf(lengths) ==
    /\ held = "held"
    /\ parser.fault = "none"
    /\ \E n \in lengths \cap (1..(Len(req) - fed)) :
        \E c \in {stla_http_parse(Ctx(parser, log, on_body_chunk),
                                   SubSeq(req, fed + 1, fed + n))} :
            /\ parser' = c.p
            /\ log' = c.log
            /\ fed' = fed + n
    /\ late' = IF http_state_read_complete \in parser.state THEN late + 1 ELSE late
    /\ UNCHANGED <<on_body_chunk, pool_size, nfree, held, req, p0, ninit, got, poolVars, parser_pool, threadVars>>

HttpParse == HttpParseOf(1..(Len(req) - fed))

\* stla_http_release, lines 379-396.  stla_buffer_destroy of an indeterminate
\* chunk_body_cache is a fault.
HttpRelease ==
    /\ held = "held"
    /\ parser.fault = "none"
    /\ IF parser.chunk_body_cache = Wild
       THEN /\ parser' = [parser EXCEPT !.fault = "wild"]
            /\ UNCHANGED <<nfree, held>>
       ELSE IF parser.pool_member # 0
       THEN /\ parser' = Recycle(parser)
            /\ nfree' = nfree + 1
            /\ held' = "free"
       ELSE /\ parser' = Blank
            /\ held' = "none"
            /\ UNCHANGED nfree
    /\ UNCHANGED <<on_body_chunk, pool_size, log, req, fed, p0, late, ninit, got, poolVars, parser_pool, threadVars>>

Next == HttpInit \/ HttpParse \/ HttpRelease

Spec == Init /\ [][Next]_vars

----------------------------------------------------------------------------
(* SpecForm: requests fed in one call, and stla_http_param(p, body, ...)    *)
(* called once the request has ended                                        *)

\* S4 with a shorter body: a form-encoded POST
ReqForm ==
    <<"P", " ", "/", " ", "H", "\r", "\n", "C", "o", "n", "t", "e", "n", "t", "-", "T",
      "y", "p", "e", ":", " ", "a", "p", "p", "l", "i", "c", "a", "t", "i", "o", "n",
      "/", "x", "-", "w", "w", "w", "-", "f", "o", "r", "m", "-", "u", "r", "l", "e",
      "n", "c", "o", "d", "e", "d", "\r", "\n", "C", "o", "n", "t", "e", "n", "t", "-",
      "L", "e", "n", "g", "t", "h", ":", " ", "7", "\r", "\n", "\r", "\n", "a", "=", "1",
      "&", "b", "=", "2">>

\* a form-encoded POST, the header in other case and with a parameter
ReqFormCase ==
    <<"P", " ", "/", " ", "H", "\r", "\n", "c", "o", "n", "t", "e", "n", "t", "-", "t",
      "y", "p", "e", ":", " ", "A", "p", "p", "l", "i", "c", "a", "t", "i", "o", "n",
      "/", "X", "-", "W", "W", "W", "-", "F", "o", "r", "m", "-", "U", "r", "l", "e",
      "n", "c", "o", "d", "e", "d", ";", " ", "q", "\r", "\n", "C", "o", "n", "t", "e",
      "n", "t", "-", "L", "e", "n", "g", "t", "h", ":", " ", "3", "\r", "\n", "\r", "\n",
      "a", "=", "3">>

\* a POST of another Content-Type
ReqText ==
    <<"P", " ", "/", " ", "H", "\r", "\n", "C", "o", "n", "t", "e", "n", "t", "-", "T",
      "y", "p", "e", ":", " ", "t", "e", "x", "t", "/", "p", "l", "a", "i", "n", "\r",
      "\n", "C", "o", "n", "t", "e", "n", "t", "-", "L", "e", "n", "g", "t", "h", ":",
      " ", "3", "\r", "\n", "\r", "\n", "a", "=", "4">>

\* a request of the form Content-Type and no body
ReqFormNoBody ==
    <<"G", " ", "/", " ", "H", "\r", "\n", "C", "o", "n", "t", "e", "n", "t", "-", "T",
      "y", "p", "e", ":", " ", "a", "p", "p", "l", "i", "c", "a", "t", "i", "o", "n",
      "/", "x", "-", "w", "w", "w", "-", "f", "o", "r", "m", "-", "u", "r", "l", "e",
      "n", "c", "o", "d", "e", "d", "\r", "\n", "\r", "\n">>

FormRequests == {ReqForm, ReqFormCase, ReqText, ReqFormNoBody, ReqSimpleGet}

\* the keys asked for and the default given
ParamKeys == {<<"a">>, <<"b">>}
ParamDefault == <<"x">>

FormInit == HttpInitOf(FormRequests)

FormParse == HttpParseOf({Len(req) - fed})

\* stla_http_param(p, body, key, default), lines 454-471, called by the owner
\* of the parser after on_request_end
HttpParam ==
    /\ held = "held"
    /\ parser.fault = "none"
    /\ \E i \in 1..Len(log) : log[i].cb = "on_request_end"
    /\ \E key \in ParamKeys : \E o \in stla_http_param_body(parser, key, ParamDefault) :
          /\ parser' = o.p
          /\ got' = [key |-> key, res |-> o.res]
    /\ UNCHANGED <<on_body_chunk, pool_size, nfree, held, log, req, fed, p0, late, ninit, poolVars, parser_pool, threadVars>>

NextForm == FormInit \/ FormParse \/ HttpParam \/ HttpRelease

SpecForm == Init /\ [][NextForm]_vars

----------------------------------------------------------------------------
(* SpecQuery: requests with and without a query string, each fed in one    *)
(* stla_http_parse call; the caller asks for a query parameter after        *)
(* on_request_end or on_parsing_error                                       *)

ReqQuery1 ==
    <<"G", " ", "/", "?", "q", "=", "1", " ", "H", "\r", "\n", "A", ":", " ", "1", "\r", "\n", "\r", "\n">>

ReqQuery2 ==
    <<"G", " ", "/", "?", "q", "=", "2", " ", "H", "\r", "\n", "\r", "\n">>

QueryRequests == {ReqQuery1, ReqQuery2, ReqSimpleGet, ReqOneToken}

QueryKeys == {<<"q">>}

QueryInit == HttpInitOf(QueryRequests)

\* stla_http_param(p, query, key, default), lines 454-471, called by the
\* owner of the parser after a terminal callback
HttpParamQuery ==
    /\ held = "held"
    /\ parser.fault = "none"
    /\ \E i \in 1..Len(log) : log[i].cb \in {"on_request_end", "on_parsing_error"}
    /\ \E key \in QueryKeys : \E o \in stla_http_param_query(parser, key, ParamDefault) :
          /\ parser' = o.p
          /\ got' = [key |-> key, res |-> o.res]
    /\ UNCHANGED <<on_body_chunk, pool_size, nfree, held, log, req, fed, p0, late, ninit, poolVars, parser_pool, threadVars>>

NextQuery == QueryInit \/ FormParse \/ HttpParamQuery \/ HttpRelease

SpecQuery == Init /\ [][NextQuery]_vars

----------------------------------------------------------------------------
(* SpecHex: chunked requests whose size lines hold hexadecimal digits,      *)
(* extensions or no number, fed under every partition                       *)

\* a chunk of ten bytes, its size written A
ReqChunkedHexA ==
    <<"P", " ", "/", " ", "H", "\r", "\n", "T", "r", "a", "n", "s", "f", "e", "r", "-",
      "E", "n", "c", "o", "d", "i", "n", "g", ":", " ", "c", "h", "u", "n", "k", "e",
      "d", "\r", "\n", "\r", "\n", "A", "\r", "\n", "0", "1", "2", "3", "4", "5", "6", "7",
      "8", "9", "\r", "\n", "0", "\r", "\n", "\r", "\n">>

\* a chunk of thirty-one bytes, its size written 1f
ReqChunkedHex1f ==
    <<"P", " ", "/", " ", "H", "\r", "\n", "T", "r", "a", "n", "s", "f", "e", "r", "-",
      "E", "n", "c", "o", "d", "i", "n", "g", ":", " ", "c", "h", "u", "n", "k", "e",
      "d", "\r", "\n", "\r", "\n", "1", "f", "\r", "\n", "0", "1", "2", "3", "4", "5", "6",
      "7", "8", "9", "a", "b", "c", "d", "e", "f", "g", "h", "i", "j", "k", "l", "m",
      "n", "o", "p", "q", "r", "s", "t", "u", "\r", "\n", "0", "\r", "\n", "\r", "\n">>

\* a chunk of two bytes, its size followed by an extension
ReqChunkedExt ==
    <<"P", " ", "/", " ", "H", "\r", "\n", "T", "r", "a", "n", "s", "f", "e", "r", "-",
      "E", "n", "c", "o", "d", "i", "n", "g", ":", " ", "c", "h", "u", "n", "k", "e",
      "d", "\r", "\n", "\r", "\n", "2", ";", "x", "\r", "\n", "h", "i", "\r", "\n", "0", "\r",
      "\n", "\r", "\n">>

\* an empty chunk size line
ReqChunkedNoSize ==
    <<"P", " ", "/", " ", "H", "\r", "\n", "T", "r", "a", "n", "s", "f", "e", "r", "-",
      "E", "n", "c", "o", "d", "i", "n", "g", ":", " ", "c", "h", "u", "n", "k", "e",
      "d", "\r", "\n", "\r", "\n", "\r", "\n">>

\* a chunk of one byte, then a chunk size line that is no number
ReqChunkedSecondBad ==
    <<"P", " ", "/", " ", "H", "\r", "\n", "T", "r", "a", "n", "s", "f", "e", "r", "-",
      "E", "n", "c", "o", "d", "i", "n", "g", ":", " ", "c", "h", "u", "n", "k", "e",
      "d", "\r", "\n", "\r", "\n", "1", "\r", "\n", "a", "\r", "\n", "G", ";", "1", "\r", "\n">>

\* the requests with a chunk size line that does not begin with a hexadecimal
\* digit
BadSizeRequests == {ReqChunkedBadSize, ReqChunkedNoSize, ReqChunkedSecondBad}

HexRequests == {ReqChunkedHexA, ReqChunkedHex1f, ReqChunkedExt}

SizeLineRequests == HexRequests \cup BadSizeRequests

HexInit == HttpInitOf(SizeLineRequests)

NextHex == HexInit \/ HttpParse \/ HttpRelease

SpecHex == Init /\ [][NextHex]_vars

----------------------------------------------------------------------------
(* SpecFrame: requests that announce a chunked body and carry a             *)
(* Content-Length header too                                                *)

LinePost == <<"P", " ", "/", " ", "H">>
LineChunked == KeyTransferEncoding \o <<":", " ">> \o StrChunked
LineLength(v) == KeyContentLength \o <<":", " ">> \o v

\* one chunk of one byte and the zero chunk
ChunkedBody == <<"1", "\r", "\n", "a", "\r", "\n", "0", "\r", "\n">>

\* Content-Length: v before Transfer-Encoding: chunked
ReqLengthThenChunked(v) ==
    LinePost \o CRLF \o LineLength(v) \o CRLF \o LineChunked \o CRLFCRLF \o ChunkedBody

\* Transfer-Encoding: chunked before Content-Length: v
ReqChunkedThenLength(v) ==
    LinePost \o CRLF \o LineChunked \o CRLF \o LineLength(v) \o CRLFCRLF \o ChunkedBody

\* Transfer-Encoding: chunked and no Content-Length
ReqChunkedOnly == LinePost \o CRLF \o LineChunked \o CRLFCRLF \o ChunkedBody

\* both headers, with a Content-Length of 3
BothRequests == {ReqLengthThenChunked(<<"3">>), ReqChunkedThenLength(<<"3">>)}

\* a Content-Length that is absent, 0, or no number
ChunkedOnlyRequests ==
    {ReqChunkedOnly, ReqLengthThenChunked(<<"0">>), ReqChunkedThenLength(<<"x">>)}

\* a Content-Length that begins with a digit and is no number
MixedRequests == {ReqLengthThenChunked(<<"2", "x">>)}

FrameRequests == BothRequests \cup ChunkedOnlyRequests \cup MixedRequests

FrameInit == HttpInitOf(FrameRequests)

NextFrame == FrameInit \/ HttpParse \/ HttpRelease

SpecFrame == Init /\ [][NextFrame]_vars



----------------------------------------------------------------------------
(* SpecPool: the group's pool under any number of callers.  The parsers    *)
(* are counted, not told apart: nfree on the free list, heldPool and       *)
(* heldNon owned by callers.  The critical sections of stla_http_init and  *)
(* stla_http_release are single steps taken while g->lock is free; the     *)
(* steps of stla_http_group_destroy are its own.  No caller acquires a     *)
(* parser once stla_http_group_destroy has been called.                    *)

\* stla_http_init, lines 349-377, with at most bound parsers owned at a time
PoolInit(bound) ==
    /\ dpc = "idle"
    /\ lock = "free"
    /\ heldPool + heldNon < bound
    /\ IF nfree > 0
       THEN /\ nfree' = nfree - 1
            /\ heldPool' = heldPool + 1
            /\ UNCHANGED <<pool_size, heldNon>>
       ELSE IF PoolMember(pool_size) # 0
       THEN /\ pool_size' = pool_size + 1
            /\ heldPool' = heldPool + 1
            /\ UNCHANGED <<nfree, heldNon>>
       ELSE /\ heldNon' = heldNon + 1
            /\ UNCHANGED <<pool_size, nfree, heldPool>>
    /\ UNCHANGED <<parserVars, parser_pool, threadVars, lock, dpc, num_pool_destroyed, slept, group_freed>>

\* stla_http_release of a pool member, lines 383-389
PoolRelease ==
    /\ heldPool > 0
    /\ lock = "free"
    /\ heldPool' = heldPool - 1
    /\ nfree' = nfree + 1
    /\ UNCHANGED <<parserVars, parser_pool, threadVars, pool_size, heldNon, lock, dpc, num_pool_destroyed,
                   slept, group_freed>>

\* stla_http_release of a parser that is no pool member, lines 390-394
PoolReleaseNon ==
    /\ heldNon > 0
    /\ heldNon' = heldNon - 1
    /\ UNCHANGED <<parserVars, parser_pool, threadVars, pool_size, nfree, heldPool, lock, dpc,
                   num_pool_destroyed, slept, group_freed>>

\* stla_http_group_destroy is called, lines 119-121
DestroyCall ==
    /\ dpc = "idle"
    /\ heldPool <= MaxOutAtDestroy
    /\ dpc' = "test"
    /\ num_pool_destroyed' = 0
    /\ UNCHANGED <<parserVars, parser_pool, threadVars, pool_size, nfree, heldPool, heldNon, lock, slept, group_freed>>

\* line 122: the test of the outer loop
DestroyTest ==
    /\ dpc = "test"
    /\ dpc' = IF num_pool_destroyed < pool_size THEN "lock" ELSE "free"
    /\ UNCHANGED <<parserVars, parser_pool, threadVars, pool_size, nfree, heldPool, heldNon, lock,
                   num_pool_destroyed, slept, group_freed>>

\* line 123
DestroyLock ==
    /\ dpc = "lock"
    /\ lock = "free"
    /\ lock' = "destroy"
    /\ dpc' = "drain"
    /\ UNCHANGED <<parserVars, parser_pool, threadVars, pool_size, nfree, heldPool, heldNon,
                   num_pool_destroyed, slept, group_freed>>

\* lines 124-130: the inner loop frees every parser on the free list
DestroyDrain ==
    /\ dpc = "drain"
    /\ nfree' = 0
    /\ parser_pool' = 0
    /\ num_pool_destroyed' = num_pool_destroyed + nfree
    /\ dpc' = "unlock"
    /\ UNCHANGED <<parserVars, threadVars, pool_size, heldPool, heldNon, lock, slept, group_freed>>

\* DestroyUnlock without pthread_mutex_unlock
DestroyUnlock_KeepsLock ==
    /\ dpc = "unlock"
    /\ slept' = (slept \/ num_pool_destroyed < pool_size)
    /\ dpc' = "test"
    /\ UNCHANGED <<parserVars, parser_pool, threadVars, pool_size, nfree, heldPool, heldNon, lock,
                   num_pool_destroyed, group_freed>>

\* lines 131-134: unlock, and sleep when parsers are still out
DestroyUnlock ==
    /\ dpc = "unlock"
    /\ lock' = "free"
    /\ slept' = (slept \/ num_pool_destroyed < pool_size)
    /\ dpc' = "test"
    /\ UNCHANGED <<parserVars, parser_pool, threadVars, pool_size, nfree, heldPool, heldNon,
                   num_pool_destroyed, group_freed>>

\* line 136
DestroyFree ==
    /\ dpc = "free"
    /\ group_freed' = TRUE
    /\ dpc' = "done"
    /\ UNCHANGED <<parserVars, parser_pool, threadVars, pool_size, nfree, heldPool, heldNon, lock,
                   num_pool_destroyed, slept>>

Destroy == DestroyTest \/ DestroyLock \/ DestroyDrain \/ DestroyUnlock \/ DestroyFree

NextPool == PoolInit(MaxOutstanding) \/ PoolRelease \/ PoolReleaseNon \/ DestroyCall \/ Destroy

SpecPool == Init /\ [][NextPool]_vars

\* SpecLive: the same pool with few callers, the thread of
\* stla_http_group_destroy scheduled fairly, and every owner of a pool member
\* releasing it in the end (the lock is free again and again: the destroyer
\* sleeps between two rounds).
NextLive == PoolInit(MaxLive) \/ PoolRelease \/ DestroyCall \/ Destroy

SpecLive == Init /\ [][NextLive]_vars /\ WF_vars(Destroy) /\ SF_vars(PoolRelease)

----------------------------------------------------------------------------
(* SpecLock: the threads of stla_http_init and stla_http_release step by    *)
(* step, next to the thread of stla_http_group_destroy; every access to     *)
(* shared memory is a step of its own.  All parsers are pool members (their *)
(* number stays far below max_parser_group).                                *)

RECURSIVE Chain(_, _, _)
\* the first k parsers of the list that starts at h and is linked by nx
Chain(h, nx, k) == IF h = 0 \/ k = 0 THEN <<>> ELSE <<h>> \o Chain(nx[h], nx, k - 1)

\* the free list from its head; one entry more than there are parsers when
\* the links form a cycle
FreeList == Chain(parser_pool, next, Cardinality(Parsers) + 1)

ThreadUnchanged == UNCHANGED <<parserVars, heldNon, dpc, num_pool_destroyed, slept, group_freed>>

\* stla_http_init is called, line 349
InitCall(t) ==
    /\ tpc[t] = "idle"
    /\ dpc = "idle"
    /\ Cardinality(town[t]) < MaxOwn
    /\ tpc' = [tpc EXCEPT ![t] = "init_lock"]
    /\ tres' = [tres EXCEPT ![t] = 0]
    /\ UNCHANGED <<pool_size, nfree, heldPool, lock, parser_pool, next, made, town>>
    /\ ThreadUnchanged

\* line 353
InitLock(t) ==
    /\ tpc[t] = "init_lock"
    /\ lock = "free"
    /\ lock' = t
    /\ tpc' = [tpc EXCEPT ![t] = "init_read"]
    /\ UNCHANGED <<pool_size, nfree, heldPool, parser_pool, next, made, tres, town>>
    /\ ThreadUnchanged

\* InitRead without the test of g->parser_pool: a parser is constructed
InitRead_NoReuse(t) ==
    /\ tpc[t] = "init_read"
    /\ tpc' = [tpc EXCEPT ![t] = "init_count"]
    /\ UNCHANGED <<pool_size, nfree, heldPool, lock, parser_pool, next, made, tres, town>>
    /\ ThreadUnchanged

\* lines 354-355: the test of g->parser_pool and res = g->parser_pool
InitRead(t) ==
    /\ tpc[t] = "init_read"
    /\ tres' = [tres EXCEPT ![t] = parser_pool]
    /\ tpc' = [tpc EXCEPT ![t] = IF parser_pool # 0 THEN "init_pop" ELSE "init_count"]
    /\ UNCHANGED <<pool_size, nfree, heldPool, lock, parser_pool, next, made, town>>
    /\ ThreadUnchanged

\* line 356: g->parser_pool = res->next
InitPop(t) ==
    /\ tpc[t] = "init_pop"
    /\ parser_pool' = next[tres[t]]
    /\ nfree' = nfree - 1
    /\ heldPool' = heldPool + 1
    /\ tpc' = [tpc EXCEPT ![t] = "init_unlock"]
    /\ UNCHANGED <<pool_size, lock, next, made, tres, town>>
    /\ ThreadUnchanged

\* InitCount without g->pool_size++
InitCount_NoCount(t) ==
    /\ tpc[t] = "init_count"
    /\ heldPool' = heldPool + 1
    /\ tpc' = [tpc EXCEPT ![t] = "init_unlock"]
    /\ UNCHANGED <<pool_size, nfree, lock, parser_pool, next, made, tres, town>>
    /\ ThreadUnchanged

\* lines 358-361
InitCount(t) ==
    /\ tpc[t] = "init_count"
    /\ pool_size' = pool_size + PoolMember(pool_size)
    /\ heldPool' = heldPool + 1
    /\ tpc' = [tpc EXCEPT ![t] = "init_unlock"]
    /\ UNCHANGED <<nfree, lock, parser_pool, next, made, tres, town>>
    /\ ThreadUnchanged

\* line 363
InitUnlock(t) ==
    /\ tpc[t] = "init_unlock"
    /\ lock' = "free"
    /\ tpc' = [tpc EXCEPT ![t] = "init_make"]
    /\ UNCHANGED <<pool_size, nfree, heldPool, parser_pool, next, made, tres, town>>
    /\ ThreadUnchanged

\* lines 364-376: construct a parser when none was popped, and return res
InitMake(t) ==
    /\ tpc[t] = "init_make"
    /\ LET res == IF tres[t] = 0 THEN made + 1 ELSE tres[t]
       IN  /\ made' = IF tres[t] = 0 THEN made + 1 ELSE made
           /\ town' = [town EXCEPT ![t] = @ \cup {res}]
    /\ tres' = [tres EXCEPT ![t] = 0]
    /\ tpc' = [tpc EXCEPT ![t] = "idle"]
    /\ UNCHANGED <<pool_size, nfree, heldPool, lock, parser_pool, next>>
    /\ ThreadUnchanged

\* stla_http_release(p) is called by the owner of p, lines 379-385
ReleaseCall(t) ==
    /\ tpc[t] = "idle"
    /\ \E p \in town[t] :
        /\ town' = [town EXCEPT ![t] = @ \ {p}]
        /\ tres' = [tres EXCEPT ![t] = p]
    /\ tpc' = [tpc EXCEPT ![t] = "release_lock"]
    /\ UNCHANGED <<pool_size, nfree, heldPool, lock, parser_pool, next, made>>
    /\ ThreadUnchanged

\* ReleaseLock without pthread_mutex_lock
ReleaseLock_NoLock(t) ==
    /\ tpc[t] = "release_lock"
    /\ tpc' = [tpc EXCEPT ![t] = "release_link"]
    /\ UNCHANGED <<pool_size, nfree, heldPool, lock, parser_pool, next, made, tres, town>>
    /\ ThreadUnchanged

\* line 386
ReleaseLock(t) ==
    /\ tpc[t] = "release_lock"
    /\ lock = "free"
    /\ lock' = t
    /\ tpc' = [tpc EXCEPT ![t] = "release_link"]
    /\ UNCHANGED <<pool_size, nfree, heldPool, parser_pool, next, made, tres, town>>
    /\ ThreadUnchanged

\* line 387: p->next = p->group->parser_pool
ReleaseLink(t) ==
    /\ tpc[t] = "release_link"
    /\ next' = [next EXCEPT ![tres[t]] = parser_pool]
    /\ tpc' = [tpc EXCEPT ![t] = "release_push"]
    /\ UNCHANGED <<pool_size, nfree, heldPool, lock, parser_pool, made, tres, town>>
    /\ ThreadUnchanged

\* line 388: p->group->parser_pool = p
ReleasePush(t) ==
    /\ tpc[t] = "release_push"
    /\ parser_pool' = tres[t]
    /\ nfree' = nfree + 1
    /\ heldPool' = heldPool - 1
    /\ tpc' = [tpc EXCEPT ![t] = "release_unlock"]
    /\ UNCHANGED <<pool_size, lock, next, made, tres, town>>
    /\ ThreadUnchanged

\* line 389
ReleaseUnlock(t) ==
    /\ tpc[t] = "release_unlock"
    /\ lock' = "free"
    /\ tres' = [tres EXCEPT ![t] = 0]
    /\ tpc' = [tpc EXCEPT ![t] = "idle"]
    /\ UNCHANGED <<pool_size, nfree, heldPool, parser_pool, next, made, town>>
    /\ ThreadUnchanged

ThreadInit(t) == InitCall(t) \/ InitLock(t) \/ InitRead(t) \/ InitPop(t) \/ InitCount(t)
                 \/ InitUnlock(t) \/ InitMake(t)

ThreadRelease(t) == ReleaseCall(t) \/ ReleaseLock(t) \/ ReleaseLink(t) \/ ReleasePush(t)
                    \/ ReleaseUnlock(t)

NextLock == (\E t \in Threads : ThreadInit(t) \/ ThreadRelease(t)) \/ DestroyCall \/ Destroy

SpecLock == Init /\ [][NextLock]_vars


----------------------------------------------------------------------------
(* Reading the log and the request *)

IsTerminal(e) == e.cb = "on_request_end" \/ e.cb = "on_parsing_error"

Count(l, cb) == Cardinality({i \in 1..Len(l) : l[i].cb = cb})

Terminals(l) == Cardinality({i \in 1..Len(l) : IsTerminal(l[i])})

ReadComplete == http_state_read_complete \in parser.state

\* the on_parsing_error a parse call on a completed parser adds
LateError == [cb |-> "on_parsing_error", data |-> Null, len |-> 0, state |-> parser.state]

\* what one stla_http_parse call with the first fed bytes of the request does
\* to the parser as stla_http_init returned it
OneShot ==
    IF fed = 0 THEN Ctx(p0, <<>>, on_body_chunk)
    ELSE stla_http_parse(Ctx(p0, <<>>, on_body_chunk), SubSeq(req, 1, fed))

\* the index of the last byte of the request's header block, 0 while the
\* block has not ended
HeaderEnd(r) == LET k == memmem(r, CRLFCRLF, 1) IN IF k = 0 THEN 0 ELSE k + 3

HeaderBlockFed == HeaderEnd(req) # 0 /\ fed >= HeaderEnd(req)

RequestLine(r) == LET k == memmem(r, CRLF, 1) IN SubSeq(r, 1, (IF k = 0 THEN Len(r) + 1 ELSE k) - 1)

\* the white-space delimited tokens of a line: the places where one starts
TokenStarts(line) ==
    {i \in 1..Len(line) : ~white_space(line[i]) /\ (i = 1 \/ white_space(line[i - 1]))}

\* a request line yields a method, a uri and a protocol, none of them empty
WellFormedLine(line) == Cardinality(TokenStarts(line)) >= 3

\* the number the Content-Length value of each request of the model begins
\* with, 0 when there is none
DeclaredLength(r) ==
    IF r = ReqPostLength THEN 5
    ELSE IF r \in {ReqPostLengthTrailing, ReqOneTokenLength, ReqLengthMixed} THEN 2
    ELSE 0

\* the requests of the model that announce a chunked body
ChunkedRequests == {ReqChunked, ReqChunkedTrailer, ReqChunkedBadSize}

----------------------------------------------------------------------------
(* C1 *)

\* C1 as stated: whatever the partition of the bytes fed so far into
\* stla_http_parse calls, the callbacks (with their body views) are those of
\* one stla_http_parse call with the same bytes.
C1_SameAsOneCall == held = "held" => log = OneShot.log

\* C1, amended: the callbacks are those of one stla_http_parse call with the
\* same bytes, followed by one on_parsing_error for each call that was begun
\* after the terminal callback; so they are the same when no call is.
C1_SameAsOneCallThenLate ==
    held = "held" => log = OneShot.log \o [i \in 1..late |-> LateError]

\* a request with a body was fed in several calls, one of them after its end
C1_Witness ==
    /\ held = "held"
    /\ req = ReqPostLengthTrailing
    /\ fed = Len(req)
    /\ late = 1
    /\ Count(log, "on_request_end") = 1

----------------------------------------------------------------------------
(* C2 *)

----------------------------------------------------------------------------
(* C3 *)

\* C3: on_request_end comes only after on_headers; every on_body_chunk comes
\* after on_headers and before on_request_end; no on_headers and no
\* on_body_chunk comes after a terminal callback.
C3_CallbackOrder ==
    \A i \in 1..Len(log) :
        /\ log[i].cb = "on_request_end" => \E j \in 1..(i - 1) : log[j].cb = "on_headers"
        /\ log[i].cb = "on_body_chunk" =>
              /\ \E j \in 1..(i - 1) : log[j].cb = "on_headers"
              /\ \A j \in 1..(i - 1) : log[j].cb # "on_request_end"
        /\ IsTerminal(log[i]) =>
              \A j \in (i + 1)..Len(log) : log[j].cb \notin {"on_headers", "on_body_chunk"}

\* on_headers, then the two chunks of a chunked request
C3_Witness ==
    /\ Len(log) = 3
    /\ log[1].cb = "on_headers"
    /\ log[2].cb = "on_body_chunk" /\ log[2].data = <<"h", "i">>
    /\ log[3].cb = "on_body_chunk" /\ log[3].data = <<"!">>

----------------------------------------------------------------------------
(* C4 *)

\* C4: pool_size never exceeds max_parser_group, and the free list never
\* holds more than max_parser_group parsers, whatever the interleaving of
\* stla_http_init and stla_http_release.
C4_PoolCap == pool_size <= max_parser_group /\ nfree <= max_parser_group

\* the pool is full, all its members are back on the free list, and a parser
\* acquired over the cap is still out
C4_Witness ==
    /\ PoolMember(pool_size) = 0
    /\ nfree = pool_size
    /\ heldNon > 0

----------------------------------------------------------------------------
(* C5 *)

\* a step of stla_http_init: one more parser is owned by a caller
Acquired == heldPool' + heldNon' > heldPool + heldNon

\* C5 as stated: stla_http_init with an empty free list increments pool_size
\* and returns a pool member whenever pool_size < max_parser_group; it
\* returns a parser that is no pool member, pool_size unchanged, only when
\* pool_size = max_parser_group.
C5_AcquireCap ==
    [][(Acquired /\ nfree = 0) =>
          IF pool_size < max_parser_group
          THEN pool_size' = pool_size + 1 /\ heldPool' = heldPool + 1 /\ heldNon' = heldNon
          ELSE pool_size' = pool_size /\ heldNon' = heldNon + 1 /\ heldPool' = heldPool]_vars

----------------------------------------------------------------------------
(* C6 *)

\* C6 as stated: the group is never freed while a parser acquired from it,
\* pool member or not, has not been released.
C6_DestroyWaitsForAll == group_freed => heldPool + heldNon = 0

----------------------------------------------------------------------------
(* C7 *)

\* C7: with the pool members still out released in the end and no acquire
\* after the call, stla_http_group_destroy, once called, frees the group in
\* the end; it has then taken exactly pool_size parsers off the free list;
\* and it takes parsers off the free list only while it holds the lock.
C7_DestroyTerminates ==
    /\ (dpc # "idle") ~> group_freed
    /\ [](group_freed => num_pool_destroyed = pool_size /\ nfree = 0)
    /\ [][num_pool_destroyed' > num_pool_destroyed => lock = "destroy" /\ lock' = "destroy"]_vars

\* the group was freed after the destroyer had to sleep for parsers still out
C7_Witness ==
    /\ group_freed
    /\ slept
    /\ pool_size > 1
    /\ num_pool_destroyed = pool_size

----------------------------------------------------------------------------
(* C8 *)

\* C8 as stated: on any acquired parser, fresh or recycled, a header block
\* whose request line has not three non-empty tokens causes exactly one
\* on_parsing_error (the calls made after it apart), no on_headers and no
\* on_request_end, and leaves ReadComplete set.
C8_MalformedLine ==
    (/\ held = "held"
     /\ parser.fault = "none"
     /\ HeaderBlockFed
     /\ ~WellFormedLine(RequestLine(req)))
    => /\ Count(log, "on_headers") = 0
       /\ Count(log, "on_request_end") = 0
       /\ Count(log, "on_parsing_error") = 1 + late
       /\ ReadComplete

----------------------------------------------------------------------------
(* C9 *)

\* C9: a stla_http_parse call on a parser with read_complete set invokes
\* on_parsing_error once and changes nothing of the parser: not its state,
\* not its parsed fields, not its body fields, not the bytes its reader holds.
C9_FeedAfterCompletion ==
    [][(held = "held" /\ ReadComplete /\ fed' > fed) =>
          (log' = Append(log, LateError) /\ parser' = parser)]_vars

\* bytes were fed after on_request_end, and the reader holds none of them
C9_Witness ==
    /\ held = "held"
    /\ req = ReqGetTrailing
    /\ fed = Len(req)
    /\ late = 1
    /\ parser.buf = <<>>
    /\ log[Len(log)] = LateError

----------------------------------------------------------------------------
(* C10 *)

\* C10: when the headers carry Content-Length: N with N > 0 and on_headers
\* has been invoked, the parser is in reading_whole_body with no
\* on_request_end as long as fewer than N bytes have followed the header
\* block; once N have, the callback after on_headers is on_request_end with
\* exactly those N bytes and length N, made with the state read_complete,
\* the parser's post_data and post_size being the same.
C10_LengthBody ==
    (/\ held = "held"
     /\ DeclaredLength(req) > 0
     /\ HeaderBlockFed
     /\ Count(log, "on_headers") = 1)
    => IF fed < HeaderEnd(req) + DeclaredLength(req)
       THEN /\ parser.state = {http_state_reading_whole_body}
            /\ Terminals(log) = 0
       ELSE /\ log[1].cb = "on_headers"
            /\ log[2] = [cb |-> "on_request_end",
                         data |-> SubSeq(req, HeaderEnd(req) + 1,
                                         HeaderEnd(req) + DeclaredLength(req)),
                         len |-> DeclaredLength(req),
                         state |-> {http_state_read_complete}]
            /\ parser.state = {http_state_read_complete}
            /\ parser.post_data = log[2].data
            /\ parser.post_size = DeclaredLength(req)

\* the request with the five bytes of body was fed to its end
C10_Witness ==
    /\ held = "held"
    /\ req = ReqPostLength
    /\ fed = Len(req)
    /\ Len(log) = 2
    /\ log[2].cb = "on_request_end"
    /\ log[2].data = <<"h", "e", "l", "l", "o">>
    /\ log[2].len = 5

----------------------------------------------------------------------------
(* C11 *)

\* the requests of the model with no Transfer-Encoding: chunked and with no
\* Content-Length, or one whose value does not begin with a decimal digit
\* other than 0
UnreadableLengthRequests ==
    {ReqSimpleGet, ReqGetTrailing, ReqOneToken, ReqTwoTokens, ReqEmptyProtocol,
     ReqLengthZero, ReqLengthWord}

\* the same, with the Content-Length values that are no decimal number
NoLengthRequests == UnreadableLengthRequests \cup {ReqLengthMixed}

\* the stla_http_parse call that invokes on_headers also invokes
\* on_request_end(NULL, 0) right after it and sets read_complete
EndsWithHeaders ==
    Count(log', "on_headers") > Count(log, "on_headers") =>
        /\ log' = <<[cb |-> "on_headers", data |-> Null, len |-> 0, state |-> {}],
                    [cb |-> "on_request_end", data |-> Null, len |-> 0,
                     state |-> {http_state_read_complete}]>>
        /\ http_state_read_complete \in parser'.state

----------------------------------------------------------------------------
(* C12 *)

\* the requests of the model that are complete chunked requests
CompleteChunkedRequests == {ReqChunked, ReqChunkedTrailer}

\* the payloads of the chunks of a complete chunked request, concatenated
ChunkPayload(r) == IF r = ReqChunked THEN <<"h", "i", "!">> ELSE <<"a">>

\* C12 as stated: with no on_body_chunk registered, once a complete chunked
\* request has been fed to an acquired parser, fresh or recycled,
\* on_request_end has been invoked with the concatenation of the payloads of
\* this request's chunks and its length.
C12_ChunkAccumulation ==
    (/\ held = "held"
     /\ ~on_body_chunk
     /\ req \in CompleteChunkedRequests
     /\ fed = Len(req))
    => \E i \in 1..Len(log) :
          /\ log[i].cb = "on_request_end"
          /\ log[i].data = ChunkPayload(req)
          /\ log[i].len = Len(ChunkPayload(req))

----------------------------------------------------------------------------
(* C13 *)

\* the payloads of the chunks of a complete chunked request, in wire order
ChunksOf(r) == IF r = ReqChunked THEN <<<<"h", "i">>, <<"!">>>> ELSE <<<<"a">>>>

\* the callbacks of log, without the state each was made in
Calls(l) == [i \in 1..Len(l) |-> [cb |-> l[i].cb, data |-> l[i].data, len |-> l[i].len]]

\* on_headers, then one on_body_chunk for each chunk of r
ChunkCalls(r) ==
    <<[cb |-> "on_headers", data |-> Null, len |-> 0]>> \o
    [i \in 1..Len(ChunksOf(r)) |->
        [cb |-> "on_body_chunk", data |-> ChunksOf(r)[i], len |-> Len(ChunksOf(r)[i])]]

\* C13 as stated: with on_body_chunk registered, a complete chunked request
\* gives on_headers, one on_body_chunk per chunk of size s > 0 with its first
\* s bytes, in wire order, then on_request_end(NULL, 0); and nothing is
\* accumulated.
C13_ChunkedDelivery ==
    (/\ held = "held"
     /\ parser.fault = "none"
     /\ on_body_chunk
     /\ req \in CompleteChunkedRequests
     /\ fed = Len(req))
    => /\ Calls(log) = ChunkCalls(req) \o <<[cb |-> "on_request_end", data |-> Null, len |-> 0]>>
       /\ parser.chunk_body_cache = p0.chunk_body_cache

----------------------------------------------------------------------------
(* C14 *)

\* the requests of SpecForm whose Content-Type begins with
\* application/x-www-form-urlencoded and whose body is not empty
FormTypedRequests == {ReqForm, ReqFormCase}

\* C14: stla_http_param(p, body, key, default) returns a value other than
\* default only if the current request's Content-Type begins, in any case,
\* with application/x-www-form-urlencoded and the request has a body; on a
\* fresh parser and on a recycled one.
C14_FormGated ==
    (held = "held" /\ got.key # Null /\ got.res # ParamDefault) => req \in FormTypedRequests

----------------------------------------------------------------------------
(* C15 *)

\* the parsers the threads own, the parsers on the free list, and the parsers
\* a call under way has in hand that are not on the free list
Owned == UNION {town[t] : t \in Threads}
Listed == {FreeList[i] : i \in 1..Len(FreeList)}
InHand == ({tres[t] : t \in Threads} \ {0}) \ Listed

\* the positions at which a thread reads or writes g->parser_pool
HeadAccess == {"init_read", "init_pop", "release_link", "release_push"}

\* C15: under every interleaving of the threads of stla_http_init,
\* stla_http_release and stla_http_group_destroy no parser is returned to two
\* callers, no parser is twice on the free list or on it while owned, every
\* parser constructed is owned, in hand, on the free list or destroyed, and
\* every access to the head of the free list is made by the holder of g->lock.
C15_Serialized ==
    /\ \A t1, t2 \in Threads : t1 # t2 =>
          /\ town[t1] \cap town[t2] = {}
          /\ tres[t1] \notin town[t2]
          /\ tres[t1] # 0 => tres[t1] # tres[t2]
    /\ Cardinality(Listed) = Len(FreeList)
    /\ Listed \cap Owned = {}
    /\ Cardinality(Owned) + Cardinality(InHand) + Len(FreeList) + num_pool_destroyed = made
    /\ \A t \in Threads : tpc[t] \in HeadAccess => lock = t
    /\ dpc = "drain" => lock = "destroy"

\* one thread pops the head of a free list while another thread waits to push
\* a parser and stla_http_group_destroy waits to drain the list
C15_Witness ==
    \E t1, t2 \in Threads :
        /\ tpc[t1] = "init_pop"
        /\ tpc[t2] = "release_lock"
        /\ dpc = "lock"
        /\ lock = t1

----------------------------------------------------------------------------
(* C16 *)

\* SpecLock: the parsers outstanding at the same time, at most
MaxHeld == Cardinality(Threads) * MaxOwn

\* the calls of stla_http_init that have counted a parser and not yet
\* constructed it
Constructing == {t \in Threads : tpc[t] \in {"init_unlock", "init_make"} /\ tres[t] = 0}

\* C16 as stated: stla_http_init constructs a parser only while the free list
\* is empty, and with at most MaxHeld parsers outstanding at the same time at
\* most MaxHeld parsers are ever constructed.
C16_NoConstructWhileFree ==
    [][(made' > made) => (parser_pool = 0 /\ made' <= MaxHeld)]_vars

\* C16, amended: stla_http_init decides to construct a parser only when it
\* finds the free list empty while it holds g->lock, it constructs one parser
\* for each such decision, and until stla_http_group_destroy is called at
\* most MaxHeld parsers are constructed, whatever the number of
\* stla_http_init and stla_http_release calls.
C16_ReuseBound ==
    /\ \A t \in Threads : tpc[t] = "init_count" => (parser_pool = 0 /\ lock = t)
    /\ made + Cardinality(Constructing) = pool_size
    /\ dpc = "idle" => pool_size <= MaxHeld

\* every parser that can be outstanding has been constructed, and a call
\* returns one of them from the free list, which still holds another
C16_Witness ==
    /\ dpc = "idle"
    /\ made = MaxHeld
    /\ parser_pool # 0
    /\ \E t \in Threads : tpc[t] = "init_make" /\ tres[t] # 0

----------------------------------------------------------------------------
(* C17 *)

\* the state has exactly one of the five reading bits, with or without
\* read_complete
OneReadingBit(state) == Cardinality(state \cap AllReading) = 1

\* C17 as stated: between the steps and inside every callback the state of an
\* acquired parser has exactly one of the five reading bits set, read_complete
\* being set together with the bit of the substate that finished.
C17_OneReadingBit ==
    (held = "held" /\ parser.fault = "none") =>
        /\ OneReadingBit(parser.state)
        /\ \A i \in 1..Len(log) : OneReadingBit(log[i].state)

\* the state inside a callback
StateInside(cb) ==
    CASE cb = "on_headers" -> {}
      [] cb = "on_body_chunk" -> {http_state_reading_chunk_data}
      [] OTHER -> {http_state_read_complete}

\* C17, amended: between the steps the state of an acquired parser is exactly
\* one of the six bits, read_complete alone once the request is terminal;
\* inside on_headers no bit is set, inside on_body_chunk reading_chunk_data
\* alone, inside on_request_end and on_parsing_error read_complete alone.
C17_OneBitOrNone ==
    (held = "held" /\ parser.fault = "none") =>
        /\ Cardinality(parser.state) = 1
        /\ parser.state \subseteq AllReading \cup {http_state_read_complete}
        /\ Terminals(log) > 0 => parser.state = {http_state_read_complete}
        /\ \A i \in 1..Len(log) : log[i].state = StateInside(log[i].cb)

\* a chunked request after on_headers and two on_body_chunk calls, the parser
\* waiting for the empty line
C17_Witness ==
    /\ held = "held"
    /\ parser.fault = "none"
    /\ req = ReqChunked
    /\ Len(log) = 3
    /\ log[1].cb = "on_headers"
    /\ log[3].cb = "on_body_chunk"
    /\ parser.state = {http_state_reading_footers}

----------------------------------------------------------------------------
(* C18 *)

\* C18: for a parser returned by stla_http_init, freshly constructed or
\* popped from the free list, method, uri and protocol are null until the
\* header step of the current request has succeeded (on_headers has been
\* called), and all three are non-null afterwards.
C18_RequestLineFields ==
    (held = "held" /\ parser.fault = "none") =>
        IF Count(log, "on_headers") > 0
        THEN parser.method # Null /\ parser.uri # Null /\ parser.protocol # Null
        ELSE parser.method = Null /\ parser.uri = Null /\ parser.protocol = Null

----------------------------------------------------------------------------
(* C19 *)

\* the value of a hexadecimal digit
HexDigitVal(c) ==
    IF isdigit(c) THEN DigitVal(c)
    ELSE 9 + (CHOOSE i \in 1..6 : LowerCase[i] = c \/ UpperCase[i] = c)

RECURSIVE HexValue(_, _, _)
\* the base-16 number made of the hexadecimal digits of s from index i on
HexValue(s, i, acc) ==
    IF i <= Len(s) /\ isxdigit(s[i])
    THEN HexValue(s, i + 1, acc * 16 + HexDigitVal(s[i]))
    ELSE acc

\* the index of the last byte of the first chunk size line of r
SizeLineEnd(r) == memmem(r, CRLF, HeaderEnd(r) + 1) + 1

\* the size the first chunk size line of r states, in base 16
StatedSize(r) == HexValue(SubSeq(r, HeaderEnd(r) + 1, SizeLineEnd(r)), 1, 0)

\* C19: when the chunk size line has arrived, its leading hexadecimal digits
\* read as a base-16 number s: for s > 0 a pull of s + 2 bytes is registered
\* and the state is reading_chunk_data, for s = 0 the state is
\* reading_footers.
C19_HexChunkSize ==
    (held = "held" /\ parser.fault = "none" /\ req \in HexRequests /\ fed = SizeLineEnd(req)) =>
        IF StatedSize(req) > 0
        THEN /\ parser.state = {http_state_reading_chunk_data}
             /\ parser.pull = PullBytes(StatedSize(req) + 2)
        ELSE parser.state = {http_state_reading_footers}

----------------------------------------------------------------------------
(* C20 *)

\* C20: a chunked request whose zero-size chunk is followed by any number of
\* trailer lines and the empty line ends with on_request_end and
\* read_complete: the view of the empty line, two bytes long, ends the
\* request, a longer view is a trailer line and is discarded.
C20_TrailerCompletion ==
    (held = "held" /\ parser.fault = "none" /\ req \in CompleteChunkedRequests /\ fed = Len(req)) =>
        /\ Count(log, "on_request_end") = 1
        /\ http_state_read_complete \in parser.state

----------------------------------------------------------------------------
(* C21 *)

\* the index of the last byte of the chunk size line that is no number
BadLineEnd(r) == IF r = ReqChunkedBadSize THEN Len(r) - 2 ELSE Len(r)

\* the index in l of the first on_parsing_error, 0 when there is none
FirstError(l) ==
    IF Count(l, "on_parsing_error") = 0 THEN 0
    ELSE CHOOSE i \in 1..Len(l) :
             l[i].cb = "on_parsing_error" /\ \A j \in 1..(i - 1) : l[j].cb # "on_parsing_error"

\* C21: when a chunk size line does not begin with a hexadecimal digit,
\* on_parsing_error is invoked once for it, after on_headers; the state is
\* read_complete alone, no pull is registered and on_request_end is never
\* invoked.  Before the line has arrived no error is reported; the only later
\* callbacks are those of stla_http_parse calls made after the failure.
C21_MalformedChunkSize ==
    (held = "held" /\ parser.fault = "none" /\ req \in BadSizeRequests) =>
        /\ Count(log, "on_request_end") = 0
        /\ fed < BadLineEnd(req) => Count(log, "on_parsing_error") = 0
        /\ fed >= BadLineEnd(req) =>
              /\ FirstError(log) > 1
              /\ log[1].cb = "on_headers"
              /\ log[FirstError(log)].state = {http_state_read_complete}
              /\ Len(log) = FirstError(log) + late
              /\ \A i \in (FirstError(log) + 1)..Len(log) : log[i] = LateError
              /\ parser.state = {http_state_read_complete}
              /\ parser.pull = NoPull

\* a chunk was delivered, then the size line that is no number arrived
C21_Witness ==
    /\ held = "held"
    /\ parser.fault = "none"
    /\ req = ReqChunkedSecondBad
    /\ fed = Len(req)
    /\ late = 0
    /\ Len(log) = 3
    /\ log[2].cb = "on_body_chunk"
    /\ log[3].cb = "on_parsing_error"
    /\ parser.pull = NoPull

----------------------------------------------------------------------------
(* C22 *)

\* a step of stla_http_release on the parser the caller owns
ReleaseStep ==
    /\ held = "held"
    /\ parser.fault = "none"
    /\ fed' = fed
    /\ ninit' = ninit
    /\ vars' # vars

\* C22: stla_http_release of a pool member clears its reader, discards its
\* chunk buffer and pushes it onto the free list once, so that the parser on
\* the free list has no buffered bytes, no pull and no chunk buffer;
\* stla_http_release of a parser that is no pool member destroys it and
\* leaves the free list alone; pool_size changes in neither case.
C22_ReleaseRouting ==
    [][ReleaseStep =>
          /\ pool_size' = pool_size
          /\ IF parser.pool_member # 0
             THEN /\ held' = "free"
                  /\ nfree' = nfree + 1
                  /\ parser'.pool_member # 0
                  /\ parser'.buf = <<>>
                  /\ parser'.pull = NoPull
                  /\ parser'.chunk_body_cache = Null
             ELSE /\ held' = "none"
                  /\ nfree' = nfree]_vars

----------------------------------------------------------------------------
(* C23 *)

\* the bytes the reader holds are a run of the bytes fed since stla_http_init
OwnBytes ==
    \E i \in 0..(fed - Len(parser.buf)) :
        parser.buf = SubSeq(req, i + 1, i + Len(parser.buf))

\* C23: when stla_http_init has returned a parser, constructed or popped
\* from the free list after a release in any state, its state is
\* reading_headers alone, the reader's pull is the one to "\r\n\r\n" and
\* the reader holds no byte; later it holds bytes of the new request only.
C23_AcquireRearms ==
    (held = "held" /\ parser.fault = "none") =>
        /\ fed = 0 =>
              /\ parser.state = {http_state_reading_headers}
              /\ parser.pull = PullString(CRLFCRLF)
              /\ parser.buf = <<>>
              /\ log = <<>>
        /\ OwnBytes

\* a parser popped from the free list that has parsed the headers of an earlier request
C23_Witness ==
    /\ held = "held"
    /\ parser.fault = "none"
    /\ ninit = 2
    /\ fed = 0
    /\ parser.num_headers > 0
    /\ parser.state = {http_state_reading_headers}
    /\ parser.pull = PullString(CRLFCRLF)

----------------------------------------------------------------------------
(* C24 *)

\* the pool members callers hold: the parsers returned to them, the parsers a
\* call under way has in hand, and the parsers a stla_http_init call has
\* counted in pool_size and is about to construct and return
HeldMembers == Cardinality(Owned) + Cardinality(InHand) + Cardinality(Constructing)

\* C24: while stla_http_group_destroy has not been called and no thread is
\* in a critical section, the length of the free list plus the number of
\* pool members held by callers is pool_size; pool_size never decreases.
C24_PoolAccounting ==
    /\ []((dpc = "idle" /\ lock = "free") => Len(FreeList) + HeldMembers = pool_size)
    /\ [][pool_size' >= pool_size]_vars

\* one pool member on the free list and one with a caller, no call under way
C24_Witness ==
    /\ dpc = "idle"
    /\ lock = "free"
    /\ \A t \in Threads : tpc[t] = "idle"
    /\ Len(FreeList) = 1
    /\ Cardinality(Owned) = 1
    /\ pool_size = 2

----------------------------------------------------------------------------
(* C25 *)

ChunkBits == {http_state_reading_chunk_size, http_state_reading_chunk_data,
              http_state_reading_footers}

\* the parser is on the chunked path, or has been
ChunkedPath ==
    \/ parser.state \cap ChunkBits # {}
    \/ \E i \in 1..Len(log) : log[i].state \cap ChunkBits # {} \/ log[i].cb = "on_body_chunk"
    \/ parser.chunk_body_cache # p0.chunk_body_cache

\* C25: a request with Content-Length: N, N > 0, and Transfer-Encoding:
\* chunked is read as a body of N bytes: after the header block the state is
\* reading_whole_body until the N bytes have arrived, which are handed to
\* on_request_end; no chunk size is read and on_body_chunk is not called.
\* The chunked path is taken only with a Content-Length that is absent, 0 or
\* no number.
C25_LengthBeforeChunked ==
    (held = "held" /\ parser.fault = "none") =>
        /\ req \in BothRequests =>
              /\ ~ChunkedPath
              /\ (HeaderBlockFed /\ fed < HeaderEnd(req) + 3) =>
                    (parser.state = {http_state_reading_whole_body} /\ Len(log) = 1)
              /\ fed >= HeaderEnd(req) + 3 =>
                    /\ Len(log) = 2 + late
                    /\ log[2] = [cb |-> "on_request_end", data |-> <<"1", "\r", "\n">>,
                                 len |-> 3, state |-> {http_state_read_complete}]
        /\ ChunkedPath => req \in ChunkedOnlyRequests
        /\ (req \in ChunkedOnlyRequests /\ HeaderBlockFed) => ChunkedPath

\* both headers, the chunked one first: the three bytes "1\r\n" were the body
C25_Witness ==
    /\ held = "held"
    /\ parser.fault = "none"
    /\ req = ReqChunkedThenLength(<<"3">>)
    /\ fed = HeaderEnd(req) + 3
    /\ ReadComplete
    /\ Count(log, "on_request_end") = 1
    /\ parser.post_size = 3

----------------------------------------------------------------------------
(* C26 *)

\* the parser stla_http_init returned, had it handled no request before: the
\* fields stla_http_init does not assign are as in a parser popped from the
\* free list that was released before any byte was fed
NoHistory ==
    [Arm(NewParser(p0.pool_member, Null, p0.junk)) EXCEPT !.chunk_body_cache = p0.chunk_body_cache]

\* what the bytes fed do to that parser in one stla_http_parse call
NoHistoryShot ==
    IF fed = 0 THEN Ctx(NoHistory, <<>>, on_body_chunk)
    ELSE stla_http_parse(Ctx(NoHistory, <<>>, on_body_chunk), SubSeq(req, 1, fed))

\* the headers stla_http_param(p, header, ...) can see
HeadersOf(p) == SubSeq(p.headers, 1, p.num_headers)

\* C26: a parser popped from the free list gives, for the request fed to it,
\* the callbacks, the headers and their number, the Content-Length and
\* Transfer-Encoding read from them, and the results of
\* stla_http_param(p, query, ...) that a parser without an earlier request
\* gives: nothing depends on the request handled before the release.
C26_NoLeak ==
    (held = "held" /\ parser.fault = "none" /\ ninit = 2 /\ late = 0) =>
        /\ log = NoHistoryShot.log
        /\ fed > 0 =>
              /\ parser.num_headers = NoHistoryShot.p.num_headers
              /\ HeadersOf(parser) = HeadersOf(NoHistoryShot.p)
              /\ ContentLengthOf(parser) = ContentLengthOf(NoHistoryShot.p)
              /\ EncodingOf(parser) = EncodingOf(NoHistoryShot.p)
        /\ got.key # Null =>
              got.res \in {o.res : o \in stla_http_param_query(NoHistoryShot.p, got.key, ParamDefault)}

====
